---- MODULE Spec2Model ----
(***************************************************************************)
(* A model of spelling_corrector.py: the shared correction contract        *)
(* (AbstractSpellingCorrector), the generate-and-filter strategy           *)
(* (NorvigCorrector) and the precomputed deletion index strategy           *)
(* (SymmetricDeleteCorrector).                                             *)
(*                                                                         *)
(* A Python str is a sequence of one-character strings: "cat" is           *)
(* <<"c","a","t">>.  A NorvigCorrector and a SymmetricDeleteCorrector are  *)
(* constructed on the same frequency table, as the two tests do.           *)
(***************************************************************************)
EXTENDS Integers, Sequences, FiniteSets, TLC

(* ---------------------------------------------------------------- bounds *)

\* Longest word of a frequency table.
MaxWordLen == 2
\* Most words in a frequency table.
MaxWords == 2
\* Largest count in a frequency table (counts are 0..MaxFrequency).
MaxFrequency == 2
\* Longest token handed to _correct_token directly.
MaxTokenLen == 3
\* Longest utterance handed to correct.
MaxUtteranceLen == 3
\* Calls made on the pair of correctors in one run.
MaxCalls == 2
\* Threads calling _correct_token at once, and their longest token.
NumThreads == 2
MaxThreadTokenLen == 2

\* The characters the words of a table and the tokens are drawn from.
WordCharacters == {"a", "b"}
\* The characters of an utterance: an uppercase letter (str.lower acts on
\* it) and the whitespace the tokenizer splits on.
UtteranceCharacters == {"B", " "}

Strings(chars, n) == UNION {[1..k -> chars] : k \in 0..n}

Words == Strings(WordCharacters, MaxWordLen) \ {<<>>}
Tokens == Strings(WordCharacters, MaxTokenLen) \ {<<>>}
Utterances == Strings(UtteranceCharacters, MaxUtteranceLen)

\* Every frequency table of the bounds: a dict from word to int count.
FrequencyTables ==
    UNION {[D -> 0..MaxFrequency] :
             D \in {S \in SUBSET Words : Cardinality(S) <= MaxWords}}

(* ------------------------------------------------------------- the state *)

VARIABLES
    word_2_frequency,                      \* self._word_2_frequency (both correctors)
    deleted_variation_2_dictionary_words,  \* the SymmetricDeleteCorrector's defaultdict(set)
    calls,                                 \* the calls made so far, with what each returned
    threads                                \* each thread's place in its _correct_token call

vars == <<word_2_frequency, deleted_variation_2_dictionary_words, calls, threads>>

(* ------------------------------------------- AbstractSpellingCorrector *)

\* _CHARACTERS = ascii_lowercase + digits + punctuation + " ", cut down to two
\* letters and the space, in the order of the string.
CHARACTERS == <<"a", "b", " ">>

Range(s) == {s[k] : k \in 1..Len(s)}

RECURSIVE chain(_)
\* itertools.chain over a sequence of iterables
chain(iterables) ==
    IF iterables = <<>> THEN <<>>
    ELSE Head(iterables) \o chain(Tail(iterables))

\* A slip in the truth test: a count of 1 is taken for no count.
truthy_get_above_one(w2f, word) == word \in DOMAIN w2f /\ w2f[word] > 1

\* dict.get(word) is truthy: the key is there and its count is not 0
truthy_get(w2f, word) == word \in DOMAIN w2f /\ w2f[word] # 0

\* _frequency_of: 0 when .get gives None or 0
frequency_of(w2f, token) ==
    IF ~truthy_get(w2f, token) THEN 0 ELSE w2f[token]

\* _known_in: the set of the words whose .get is truthy
known_in(w2f, words) == {word \in Range(words) : truthy_get(w2f, word)}

\* max(token_candidates, key=self._frequency_of): a largest element, the first
\* that the iteration of the set meets; the order of a set of str is the
\* build's (hash randomisation), so any largest element may be the one.
max_by_frequency(w2f, token_candidates) ==
    {c \in token_candidates :
        \A d \in token_candidates : frequency_of(w2f, c) >= frequency_of(w2f, d)}

\* str.lower on the utterance
lower(utterance) ==
    [k \in 1..Len(utterance) |->
        IF utterance[k] = "B" THEN "b" ELSE utterance[k]]

RECURSIVE split(_, _)
\* str.split(): the maximal runs of non-whitespace characters, in order
split(utterance, current) ==
    IF utterance = <<>>
    THEN IF current = <<>> THEN <<>> ELSE <<current>>
    ELSE IF Head(utterance) = " "
         THEN (IF current = <<>> THEN <<>> ELSE <<current>>)
              \o split(Tail(utterance), <<>>)
         ELSE split(Tail(utterance), Append(current, Head(utterance)))

\* the default tokenizer: lambda utterance: utterance.split()
tokenizer(utterance) == split(utterance, <<>>)

RECURSIVE retokenizer(_)
\* the default retokenizer: lambda tokens: " ".join(tokens)
retokenizer(tokens) ==
    IF tokens = <<>> THEN <<>>
    ELSE IF Len(tokens) = 1 THEN Head(tokens)
    ELSE Head(tokens) \o <<" ">> \o retokenizer(Tail(tokens))

\* A slip in the range: range(len(token)) leaves out the split at the end.
splitted_token_pairs_short(token) ==
    [i \in 1..Len(token) |->
        <<SubSeq(token, 1, i - 1), SubSeq(token, i, Len(token))>>]

\* [(token[:i], token[i:]) for i in range(len(token) + 1)]
splitted_token_pairs(token) ==
    [i \in 1..(Len(token) + 1) |->
        <<SubSeq(token, 1, i - 1), SubSeq(token, i, Len(token))>>]

(* ------------------------------------------------------ NorvigCorrector *)

\* _one_edit_token_distances: chain(inserted, deleted, replaced, transposed)
one_edit_token_distances(token) ==
    LET pairs == splitted_token_pairs(token)
        with_right == SelectSeq(pairs, LAMBDA p : p[2] # <<>>)
        with_two == SelectSeq(pairs, LAMBDA p : Len(p[2]) > 1)
        n == Len(CHARACTERS)
        deleted_distances ==
            [k \in 1..Len(with_right) |->
                with_right[k][1] \o Tail(with_right[k][2])]
        inserted_variations ==
            [k \in 1..(Len(pairs) * n) |->
                LET p == pairs[((k - 1) \div n) + 1]
                    c == CHARACTERS[((k - 1) % n) + 1]
                IN  p[1] \o <<c>> \o p[2]]
        replaced_variations ==
            [k \in 1..(Len(with_right) * n) |->
                LET p == with_right[((k - 1) \div n) + 1]
                    c == CHARACTERS[((k - 1) % n) + 1]
                IN  p[1] \o <<c>> \o Tail(p[2])]
        transposed_variations ==
            [k \in 1..Len(with_two) |->
                LET p == with_two[k]
                IN  p[1] \o <<p[2][2], p[2][1]>> \o SubSeq(p[2], 3, Len(p[2]))]
    IN  chain(<<inserted_variations, deleted_distances,
                replaced_variations, transposed_variations>>)

\* _two_edits_token_distances: the one-edit generator on every one-edit string
two_edits_token_distances(token) ==
    LET one == one_edit_token_distances(token)
    IN  chain([k \in 1..Len(one) |-> one_edit_token_distances(one[k])])

\* NorvigCorrector._candidates
norvig_candidates(w2f, token) ==
    LET token_as_list == <<token>>
        known_0 == known_in(w2f, token_as_list)
    IN  IF known_0 # {} THEN known_0
        ELSE LET known_1 == known_in(w2f, one_edit_token_distances(token))
             IN  IF known_1 # {} THEN known_1
                 ELSE LET known_2 == known_in(w2f, two_edits_token_distances(token))
                      IN  IF known_2 # {} THEN known_2
                          ELSE Range(token_as_list)

(* --------------------------------------------- SymmetricDeleteCorrector *)

\* _one_edit_deleted_variations
one_edit_deleted_variations(token) ==
    LET with_right == SelectSeq(splitted_token_pairs(token), LAMBDA p : p[2] # <<>>)
    IN  [k \in 1..Len(with_right) |-> with_right[k][1] \o Tail(with_right[k][2])]

\* A slip in the generator: the second deletion is left out.
two_edits_deleted_variations_once(token) == one_edit_deleted_variations(token)

\* _two_edits_deleted_variations
two_edits_deleted_variations(token) ==
    LET one == one_edit_deleted_variations(token)
    IN  chain([k \in 1..Len(one) |-> one_edit_deleted_variations(one[k])])

\* _create_deleted_variation_2_dictionary_words: for every key of the table,
\* every one- and two-deletion variation maps to a bucket holding the key.
create_deleted_variation_2_dictionary_words(w2f) ==
    LET variations(word) ==
            Range(chain(<<one_edit_deleted_variations(word),
                          two_edits_deleted_variations(word)>>))
        keys == UNION {variations(word) : word \in DOMAIN w2f}
    IN  [deleted_variation \in keys |->
            {word \in DOMAIN w2f : deleted_variation \in variations(word)}]

\* defaultdict(set): the default_factory's value, set()
default_factory == {}

\* A slip in the insertion: the new bucket is seeded with its own key.
missing_seeded(index, key) ==
    [k \in DOMAIN index \cup {key} |-> IF k = key THEN {key} ELSE index[k]]

\* defaultdict.__missing__(key): self[key] = default_factory()
missing(index, key) ==
    [k \in DOMAIN index \cup {key} |-> IF k = key THEN default_factory ELSE index[k]]

RECURSIVE lookup_all(_, _)
\* set(chain.from_iterable(index[key] for key in keys)): the union of the
\* buckets read, and the dict afterwards: reading a key that is missing
\* inserts it.
lookup_all(index, keys) ==
    IF keys = <<>> THEN [found |-> {}, index |-> index]
    ELSE LET key == Head(keys)
             hit == key \in DOMAIN index
             rest == lookup_all(IF hit THEN index ELSE missing(index, key), Tail(keys))
         IN  [found |-> (IF hit THEN index[key] ELSE default_factory) \cup rest.found,
              index |-> rest.index]

\* SymmetricDeleteCorrector._candidates: the candidates and the dict afterwards.
\* Each `or` operand is evaluated only when the ones before it are empty.
symmetric_delete_candidates(w2f, index, token) ==
    LET token_as_list == <<token>>
        known_0 == known_in(w2f, token_as_list)
    IN  IF known_0 # {} THEN [candidates |-> known_0, index |-> index]
        ELSE
        LET bucket_0 == lookup_all(index, token_as_list)
        IN  IF bucket_0.found # {}
            THEN [candidates |-> bucket_0.found, index |-> bucket_0.index]
            ELSE
            LET buckets_1 == lookup_all(bucket_0.index, one_edit_deleted_variations(token))
            IN  IF buckets_1.found # {}
                THEN [candidates |-> buckets_1.found, index |-> buckets_1.index]
                ELSE
                LET buckets_2 ==
                        lookup_all(buckets_1.index, two_edits_deleted_variations(token))
                IN  [candidates |-> buckets_2.found, index |-> buckets_2.index]

(* ----------------------------------------- _correct_token and correct *)

Strategies == {"NorvigCorrector", "SymmetricDeleteCorrector"}

\* self._candidates(token) of either class
candidates(strategy, w2f, index, token) ==
    IF strategy = "NorvigCorrector"
    THEN [candidates |-> norvig_candidates(w2f, token), index |-> index]
    ELSE symmetric_delete_candidates(w2f, index, token)

RECURSIVE correct_tokens(_, _, _, _)
\* [self._correct_token(token) for token in tokens]: every outcome the list
\* comprehension can have: the corrected tokens, or the ValueError that max
\* raises on an empty candidate set (the later tokens are then not reached),
\* and the deletion index afterwards.
correct_tokens(strategy, w2f, index, tokens) ==
    IF tokens = <<>>
    THEN {[raised |-> FALSE, corrected |-> <<>>, index |-> index]}
    ELSE LET c == candidates(strategy, w2f, index, Head(tokens))
         IN  IF c.candidates = {}
             THEN {[raised |-> TRUE, corrected |-> <<>>, index |-> c.index]}
             ELSE UNION {
                    {IF rest.raised THEN rest
                     ELSE [rest EXCEPT !.corrected = <<best>> \o rest.corrected] :
                        rest \in correct_tokens(strategy, w2f, c.index, Tail(tokens))} :
                    best \in max_by_frequency(w2f, c.candidates)}

\* _correct_token(token): the outcomes as [raised, result, index]
correct_token(strategy, w2f, index, token) ==
    {[raised |-> o.raised,
      result |-> IF o.raised THEN <<>> ELSE o.corrected[1],
      index |-> o.index] :
        o \in correct_tokens(strategy, w2f, index, <<token>>)}

\* correct(utterance): the outcomes as [raised, result, index]
correct(strategy, w2f, index, utterance) ==
    {[raised |-> o.raised,
      result |-> IF o.raised THEN <<>> ELSE retokenizer(o.corrected),
      index |-> o.index] :
        o \in correct_tokens(strategy, w2f, index, tokenizer(lower(utterance)))}

(* ------------------------------------------------------------ the machine *)

Threads == 1..NumThreads

\* A thread that is in no call.
idle == [pc |-> "idle"]

\* A thread that has entered _correct_token(token) of a corrector.
entered(strategy, token) ==
    [pc |-> "entered", strategy |-> strategy, token |-> token, level |-> 0,
     pending |-> <<>>, found |-> {}, raised |-> FALSE, result |-> <<>>]

\* The two constructors have returned: the table is the caller's, the index
\* is built from it, no call has been made and no thread is in a call.
Init ==
    /\ word_2_frequency \in FrequencyTables
    /\ deleted_variation_2_dictionary_words =
           create_deleted_variation_2_dictionary_words(word_2_frequency)
    /\ calls = <<>>
    /\ threads = [th \in Threads |-> idle]

\* A call made by one caller runs to its return (or to its exception).
Returned(strategy, op, arg, outcomes) ==
    /\ Len(calls) < MaxCalls
    /\ \E o \in outcomes :
        /\ calls' = Append(calls, [strategy |-> strategy, op |-> op, arg |-> arg,
                                   raised |-> o.raised, result |-> o.result])
        /\ deleted_variation_2_dictionary_words' = o.index
    /\ UNCHANGED <<word_2_frequency, threads>>

NorvigCorrectToken(token) ==
    Returned("NorvigCorrector", "_correct_token", token,
             correct_token("NorvigCorrector", word_2_frequency,
                           deleted_variation_2_dictionary_words, token))

SymmetricDeleteCorrectToken(token) ==
    Returned("SymmetricDeleteCorrector", "_correct_token", token,
             correct_token("SymmetricDeleteCorrector", word_2_frequency,
                           deleted_variation_2_dictionary_words, token))

NorvigCorrect(utterance) ==
    Returned("NorvigCorrector", "correct", utterance,
             correct("NorvigCorrector", word_2_frequency,
                     deleted_variation_2_dictionary_words, utterance))

SymmetricDeleteCorrect(utterance) ==
    Returned("SymmetricDeleteCorrector", "correct", utterance,
             correct("SymmetricDeleteCorrector", word_2_frequency,
                     deleted_variation_2_dictionary_words, utterance))

\* The token-level interface: _correct_token of either corrector.
Next ==
    \/ \E token \in Tokens : NorvigCorrectToken(token)
    \/ \E token \in Tokens : SymmetricDeleteCorrectToken(token)

Spec == Init /\ [][Next]_vars

\* What the correct calls made so far have returned: a caller may hand a
\* corrected utterance back to correct.
ReturnedUtterances ==
    {calls[i].result : i \in {j \in 1..Len(calls) : ~calls[j].raised}}

\* The utterance-level interface: correct of either corrector.
NextCorrect ==
    \/ \E utterance \in Utterances \cup ReturnedUtterances : NorvigCorrect(utterance)
    \/ \E utterance \in Utterances \cup ReturnedUtterances : SymmetricDeleteCorrect(utterance)

SpecCorrect == Init /\ [][NextCorrect]_vars

(* ------------------------------------------------- concurrent callers *)

\* Threads call _correct_token on the constructed correctors with no lock.
\* A step of a thread is one access to the shared defaultdict; what a thread
\* computes on its own values between two accesses is part of the step.  A
\* read of a missing key and the insertion by __missing__ are two steps.

ThreadTokens == Strings(WordCharacters, MaxThreadTokenLen) \ {<<>>}

\* The keys the i-th `or` operand of SymmetricDeleteCorrector._candidates reads.
operand(level, token) ==
    IF level = 0 THEN <<token>>
    ELSE IF level = 1 THEN one_edit_deleted_variations(token)
    ELSE two_edits_deleted_variations(token)

\* max(...) on the candidates, and the return or the ValueError.
finish(rec, token_candidates) ==
    IF token_candidates = {}
    THEN {[rec EXCEPT !.pc = "done", !.pending = <<>>, !.found = {}, !.raised = TRUE]}
    ELSE {[rec EXCEPT !.pc = "done", !.pending = <<>>, !.found = {}, !.result = best] :
            best \in max_by_frequency(word_2_frequency, token_candidates)}

RECURSIVE after_operand(_, _, _)
\* An `or` operand is evaluated: return it when it is not empty, else go on
\* to the next one; the last one is returned as it is.
after_operand(rec, found, level) ==
    IF found # {} \/ level = 2 THEN finish(rec, found)
    ELSE IF operand(level + 1, rec.token) = <<>>
         THEN after_operand(rec, {}, level + 1)
         ELSE {[rec EXCEPT !.pc = "lookup", !.level = level + 1,
                           !.pending = operand(level + 1, rec.token), !.found = {}]}

\* One bucket is read: on to the next key of the operand, or the operand is done.
advance(rec, found) ==
    IF Tail(rec.pending) # <<>>
    THEN {[rec EXCEPT !.pc = "lookup", !.pending = Tail(rec.pending), !.found = found]}
    ELSE after_operand(rec, found, rec.level)

\* A thread enters _correct_token.  NorvigCorrector._candidates reads the
\* table only; SymmetricDeleteCorrector._candidates starts with _known_in.
Call(th, strategy, token) ==
    /\ threads[th].pc = "idle"
    /\ LET rec == entered(strategy, token)
           known_0 == known_in(word_2_frequency, <<token>>)
       IN  threads' \in
             {[threads EXCEPT ![th] = r] :
                r \in IF strategy = "NorvigCorrector"
                      THEN finish(rec, norvig_candidates(word_2_frequency, token))
                      ELSE IF known_0 # {} THEN finish(rec, known_0)
                      ELSE {[rec EXCEPT !.pc = "lookup", !.pending = <<token>>]}}
    /\ UNCHANGED <<word_2_frequency, deleted_variation_2_dictionary_words, calls>>

\* index[key], the key is there: its bucket joins the operand's union.
Lookup(th) ==
    /\ threads[th].pc = "lookup"
    /\ LET rec == threads[th]
           key == Head(rec.pending)
       IN  IF key \in DOMAIN deleted_variation_2_dictionary_words
           THEN threads' \in
                  {[threads EXCEPT ![th] = r] :
                     r \in advance(rec, rec.found \cup
                                        deleted_variation_2_dictionary_words[key])}
           ELSE threads' = [threads EXCEPT ![th].pc = "missing"]
    /\ UNCHANGED <<word_2_frequency, deleted_variation_2_dictionary_words, calls>>

\* index[key], the key was not there: __missing__ stores the factory's value
\* under the key and returns it.
Missing(th) ==
    /\ threads[th].pc = "missing"
    /\ LET rec == threads[th]
           key == Head(rec.pending)
       IN  /\ deleted_variation_2_dictionary_words' =
                  missing(deleted_variation_2_dictionary_words, key)
           /\ threads' \in
                  {[threads EXCEPT ![th] = r] :
                     r \in advance(rec, rec.found \cup default_factory)}
    /\ UNCHANGED <<word_2_frequency, calls>>

NextConcurrent ==
    \/ \E th \in Threads, strategy \in Strategies, token \in ThreadTokens :
          Call(th, strategy, token)
    \/ \E th \in Threads : Lookup(th)
    \/ \E th \in Threads : Missing(th)

SpecConcurrent == Init /\ [][NextConcurrent]_vars

(* ------------------------------------------- the terms of the properties *)

\* The characters of the alphabet, as a set.
Alphabet == Range(CHARACTERS)

\* token without its i-th character
DeleteAt(token, i) ==
    [k \in 1..(Len(token) - 1) |-> IF k < i THEN token[k] ELSE token[k + 1]]

\* token with c put before its i-th character (i = Len + 1: at the end)
InsertAt(token, i, c) ==
    [k \in 1..(Len(token) + 1) |->
        IF k < i THEN token[k] ELSE IF k = i THEN c ELSE token[k - 1]]

OneDeleted(token) == {DeleteAt(token, i) : i \in 1..Len(token)}
TwoDeleted(token) == UNION {OneDeleted(one) : one \in OneDeleted(token)}

\* The strings one deletion, insertion, substitution or adjacent
\* transposition away from the token.
OneEdit(token) ==
    OneDeleted(token)
    \cup {InsertAt(token, i, c) : i \in 1..(Len(token) + 1), c \in Alphabet}
    \cup {[token EXCEPT ![i] = c] : i \in 1..Len(token), c \in Alphabet}
    \cup {[token EXCEPT ![i] = token[i + 1], ![i + 1] = token[i]] :
            i \in 1..(Len(token) - 1)}

\* The edit distance of the glossary, as far as 2: the least number of single
\* edits that turn token into word; 3 stands for any distance above 2.
EditDistance(token, word) ==
    IF word = token THEN 0
    ELSE IF word \in OneEdit(token) THEN 1
    ELSE IF \E one \in OneEdit(token) : word \in OneEdit(one) THEN 2
    ELSE 3

RECURSIVE CommonPrefix(_, _)
\* The length of the longest common prefix of s and t.
CommonPrefix(s, t) ==
    IF s = <<>> \/ t = <<>> THEN 0
    ELSE IF Head(s) # Head(t) THEN 0
    ELSE 1 + CommonPrefix(Tail(s), Tail(t))

RECURSIVE CommonSuffix(_, _)
\* The length of the longest common suffix of s and t.
CommonSuffix(s, t) ==
    IF s = <<>> \/ t = <<>> THEN 0
    ELSE IF s[Len(s)] # t[Len(t)] THEN 0
    ELSE 1 + CommonSuffix(SubSeq(s, 1, Len(s) - 1), SubSeq(t, 1, Len(t) - 1))

\* s differs from t and is at Damerau-Levenshtein distance 1 from it, told
\* from the two strings alone: they agree but for one character missing,
\* added or changed, or two adjacent characters swapped.
DamerauLevenshteinOne(t, s) ==
    LET p == CommonPrefix(s, t)
        q == CommonSuffix(s, t)
    IN  /\ s # t
        /\ \/ Len(s) = Len(t) + 1 /\ p + q >= Len(t)
           \/ Len(s) + 1 = Len(t) /\ p + q >= Len(s)
           \/ Len(s) = Len(t) /\ p + q >= Len(t) - 1
           \/ /\ Len(s) = Len(t)
              /\ p + 2 <= Len(t)
              /\ s[p + 1] = t[p + 2]
              /\ s[p + 2] = t[p + 1]
              /\ \A k \in (p + 3)..Len(t) : s[k] = t[k]

\* The calls made so far of one operation.
CallsOf(op) == {calls[i] : i \in {j \in 1..Len(calls) : calls[j].op = op}}

OtherStrategy(strategy) ==
    IF strategy = "NorvigCorrector" THEN "SymmetricDeleteCorrector"
    ELSE "NorvigCorrector"

\* What a call can come to: a raise, or the value returned.
Results(outcomes) == {<<o.raised, o.result>> : o \in outcomes}

\* The words of the table with a count that is not 0, and the table cut down
\* to them.
PositiveWords == {word \in DOMAIN word_2_frequency : word_2_frequency[word] > 0}

WithoutZeroCounts == [word \in PositiveWords |-> word_2_frequency[word]]

\* The index as the constructor returned it.
ConstructedIndex == create_deleted_variation_2_dictionary_words(word_2_frequency)

\* The words of positive count at the smallest edit distance from the token,
\* when that distance is at most 2.
NearestWords(token) ==
    LET least == CHOOSE d \in 0..3 :
                    /\ \A word \in PositiveWords : EditDistance(token, word) >= d
                    /\ d = 3 \/ \E word \in PositiveWords : EditDistance(token, word) = d
    IN  {word \in PositiveWords : least < 3 /\ EditDistance(token, word) = least}

RECURSIVE SequentialIndexes(_, _)
\* The indexes that the calls of the threads, run one after the other in any
\* order from the given index, can leave.
SequentialIndexes(index, remaining) ==
    IF remaining = {} THEN {index}
    ELSE UNION {
           UNION {SequentialIndexes(o.index, remaining \ {th}) :
                    o \in correct_token(threads[th].strategy, word_2_frequency,
                                        index, threads[th].token)} :
           th \in remaining}

(* --------------------------------------------------------- the properties *)

\* C1 (fallback invariant): a token with no word of the table within edit
\* distance 0, 1 or 2 is returned unchanged by _correct_token of either
\* corrector, and no exception is raised.
FallbackInvariant ==
    \A c \in CallsOf("_correct_token") :
        (\A word \in DOMAIN word_2_frequency : EditDistance(c.arg, word) > 2)
            => ~c.raised /\ c.result = c.arg

\* C2 (frequency among the nearest): when the token is not in the dictionary
\* and several dictionary words are at the same smallest edit distance from
\* it, _correct_token of either corrector returns one of them with the highest
\* frequency.  Stated on tables whose counts are all positive, for a smallest
\* distance of 1 or 2, and of the calls that return (the raise is C1's).
HighestFrequencyAmongNearest ==
    \A c \in CallsOf("_correct_token") :
        (/\ PositiveWords = DOMAIN word_2_frequency
         /\ c.arg \notin PositiveWords
         /\ Cardinality(NearestWords(c.arg)) >= 2
         /\ ~c.raised)
            => /\ c.result \in NearestWords(c.arg)
               /\ \A word \in NearestWords(c.arg) :
                     word_2_frequency[c.result] >= word_2_frequency[word]

\* C3 (idempotence on known words): _correct_token of either corrector
\* returns a word of the table with a positive count as it is, whatever the
\* counts of the words near it.
KnownWordIsKept ==
    \A c \in CallsOf("_correct_token") :
        c.arg \in PositiveWords => ~c.raised /\ c.result = c.arg

\* Both correctors have been called on a known word that has a neighbour at
\* distance 1 with a higher count.
KnownWordWithMoreFrequentNeighbour ==
    \E c \in CallsOf("_correct_token"), d \in CallsOf("_correct_token") :
        /\ c.strategy = "NorvigCorrector"
        /\ d.strategy = "SymmetricDeleteCorrector"
        /\ c.arg = d.arg
        /\ c.arg \in PositiveWords
        /\ c.result = c.arg /\ d.result = d.arg
        /\ \E word \in PositiveWords :
              /\ EditDistance(c.arg, word) = 1
              /\ word_2_frequency[word] > word_2_frequency[c.arg]

\* C4 (no mutation of shared state): no call changes the frequency table or
\* the deletion index (its keys and its buckets).
CallsLeaveSharedStateUnchanged ==
    [][/\ word_2_frequency' = word_2_frequency
       /\ deleted_variation_2_dictionary_words' = deleted_variation_2_dictionary_words]_vars

\* C5 (interchangeable strategies): what correct of one corrector returns on
\* an utterance, correct of the other corrector returns on it too.  Stated of
\* tables whose counts are all positive and of the utterances on which both
\* return (the raise is C1's); where counts tie, either corrector may return
\* any of the tied words.
StrategiesInterchangeable ==
    \A c \in CallsOf("correct") :
        LET other == Results(correct(OtherStrategy(c.strategy), word_2_frequency,
                                     deleted_variation_2_dictionary_words, c.arg))
        IN  (/\ PositiveWords = DOMAIN word_2_frequency
             /\ ~c.raised
             /\ \A r \in other : ~r[1])
                => <<FALSE, c.result>> \in other

\* C6 (utterance stability): correct, called on an utterance that an earlier
\* call of correct on the same corrector returned, returns it unchanged.
CorrectIsStable ==
    \A i \in 1..Len(calls), j \in 1..Len(calls) :
        (/\ i < j
         /\ calls[i].op = "correct" /\ calls[j].op = "correct"
         /\ calls[i].strategy = calls[j].strategy
         /\ ~calls[i].raised
         /\ calls[j].arg = calls[i].result)
            => ~calls[j].raised /\ calls[j].result = calls[j].arg

\* C7 (deletion index closure): in every state, every string that is a word
\* of the table less one character or less two characters is a key of the
\* index with the word in its bucket, and every bucket holds words of the
\* table only.
DeletionIndexClosure ==
    /\ \A word \in DOMAIN word_2_frequency :
          \A variation \in OneDeleted(word) \cup TwoDeleted(word) :
              /\ variation \in DOMAIN deleted_variation_2_dictionary_words
              /\ word \in deleted_variation_2_dictionary_words[variation]
    /\ \A key \in DOMAIN deleted_variation_2_dictionary_words :
          deleted_variation_2_dictionary_words[key] \subseteq DOMAIN word_2_frequency

\* The table has a word of two characters, and a call of the
\* SymmetricDeleteCorrector has been through the index and left keys in it.
IndexOfTwoLetterWordAfterCalls ==
    /\ \E word \in DOMAIN word_2_frequency : Len(word) = 2
    /\ \E c \in CallsOf("_correct_token") : c.strategy = "SymmetricDeleteCorrector"
    /\ DOMAIN deleted_variation_2_dictionary_words # DOMAIN ConstructedIndex

\* C8 (concurrent calls): under every interleaving, a call that has returned
\* has returned what the call returns when it runs alone on the constructed
\* corrector; every bucket a call can read holds what a sequential run finds
\* in it; and when all calls have returned the index is one that running the
\* calls one after the other leaves.
ConcurrentCallsAsAlone ==
    LET constructed == ConstructedIndex
    IN  /\ \A th \in Threads :
              threads[th].pc = "done" =>
                  <<threads[th].raised, threads[th].result>> \in
                      Results(correct_token(threads[th].strategy, word_2_frequency,
                                            constructed, threads[th].token))
        /\ \A key \in DOMAIN deleted_variation_2_dictionary_words :
              deleted_variation_2_dictionary_words[key] =
                  IF key \in DOMAIN constructed THEN constructed[key] ELSE {}
        /\ (\A th \in Threads : threads[th].pc = "done") =>
              deleted_variation_2_dictionary_words \in
                  SequentialIndexes(constructed, Threads)

\* One thread has returned from the SymmetricDeleteCorrector with a
\* correction, and another, which read a key as missing, is about to insert
\* it although the key has been inserted since.
ReturnedBesideLateInsertion ==
    \E th \in Threads, other \in Threads :
        /\ threads[th].pc = "done"
        /\ threads[th].strategy = "SymmetricDeleteCorrector"
        /\ ~threads[th].raised
        /\ threads[th].result # threads[th].token
        /\ threads[other].pc = "missing"
        /\ Head(threads[other].pending) \in DOMAIN deleted_variation_2_dictionary_words

\* C9 (one-edit generator): the strings _one_edit_token_distances yields for
\* a token are exactly the strings one deletion, insertion, substitution or
\* adjacent transposition away from it; so every string at
\* Damerau-Levenshtein distance 1 from the token is among them.
OneEditGeneratorIsExact ==
    \A c \in CallsOf("_correct_token") :
        c.strategy = "NorvigCorrector" =>
            LET yielded == Range(one_edit_token_distances(c.arg))
            IN  /\ yielded = OneEdit(c.arg)
                /\ \A s \in Strings(Alphabet, Len(c.arg) + 1) :
                      DamerauLevenshteinOne(c.arg, s) => s \in yielded
                /\ \A s \in yielded :
                      s # c.arg => DamerauLevenshteinOne(c.arg, s)

\* The NorvigCorrector has corrected a token to the word that is the token
\* with its two characters swapped, the only word of the table.
CorrectedByTransposition ==
    \E c \in CallsOf("_correct_token") :
        /\ c.strategy = "NorvigCorrector"
        /\ Len(c.arg) = 2
        /\ c.arg[1] # c.arg[2]
        /\ c.result = <<c.arg[2], c.arg[1]>>
        /\ DOMAIN word_2_frequency = {c.result}

\* C10 (a count of 0 is no count): _correct_token of either corrector
\* returns what it returns on the table without its words of count 0, and a
\* word of count 0 is never returned for another token.  The first half is
\* stated of the calls that return on both tables (the raise is C1's).
ZeroCountIsAbsent ==
    \A c \in CallsOf("_correct_token") :
        LET without ==
                Results(correct_token(c.strategy, WithoutZeroCounts,
                          create_deleted_variation_2_dictionary_words(WithoutZeroCounts),
                          c.arg))
        IN  /\ (~c.raised /\ \A r \in without : ~r[1])
                  => <<FALSE, c.result>> \in without
            /\ (~c.raised /\ c.result # c.arg) => c.result \in PositiveWords

====
